---- MODULE Spec2Model ----
(***************************************************************************)
(* FinanceTracker: the ledger held by App (financialData), its mutation    *)
(* handlers, the debounced checkUpdates scan (auto-credit + reminders),    *)
(* and the Dashboard analytics with their drill-down lists.                *)
(*                                                                         *)
(* Conventions of the model                                                *)
(*  - A JS number is an exact rational <<n, d>> (d > 0, lowest terms), so  *)
(*    "equal within floating-point tolerance" is exact equality here;      *)
(*    <<1, 0>> and <<-1, 0>> are Infinity and -Infinity, <<0, 0>> is NaN.  *)
(*  - An optional field is a set: {} for undefined, {v} for the value v.   *)
(*  - A Date is an integer count of ticks (TicksPerDay per day) since      *)
(*    1 January 2020, local time zone = UTC.  One scan reads the clock at  *)
(*    one instant (all its `new Date()` calls return the same tick).       *)
(*  - A record id is the decimal string of a number (Date.now()), modelled *)
(*    as that number; a notification id `notif_exp_${id}_${month}` is the  *)
(*    tuple <<"notif_exp", id, month>>, which is injective on such ids.    *)
(***************************************************************************)
EXTENDS Integers, Sequences, FiniteSets, TLC

\* ------------------------------------------------------------------ bounds
TicksPerDay == 2      \* clock resolution: ticks in one day
MaxTicks == 2         \* the clock runs from StartTick to StartTick + MaxTicks
MaxId == 2            \* number of record ids Date.now() hands out
MaxRecords == 2       \* ledger size in the analytics specification
MaxMonths == 1        \* months the calendar specification moves the clock ahead
MaxYears == 1         \* years the calendar specification moves the clock ahead

\* ------------------------------------------------- JS number arithmetic
Abs(n) == IF n < 0 THEN -n ELSE n

RECURSIVE GCD(_, _)
GCD(a, b) == IF b = 0 THEN a ELSE GCD(b, a % b)

Sign(n) == IF n > 0 THEN 1 ELSE IF n < 0 THEN -1 ELSE 0

\* the number n / d in lowest terms; n / 0 is an infinity or NaN
Num(n, d) ==
  IF d = 0 THEN <<Sign(n), 0>>
  ELSE LET s == IF d < 0 THEN -1 ELSE 1
           g == GCD(Abs(n), Abs(d))
       IN  <<(s * n) \div g, (s * d) \div g>>

R(n) == <<n, 1>>
Zero == R(0)
NaN == <<0, 0>>
IsFinite(x) == x[2] # 0
Plus(x, y) ==
  IF ~IsFinite(x) /\ ~IsFinite(y) THEN (IF x = y THEN x ELSE NaN)
  ELSE Num(x[1] * y[2] + y[1] * x[2], x[2] * y[2])
Minus(x, y) ==
  IF ~IsFinite(x) /\ ~IsFinite(y) THEN (IF x[1] = -y[1] THEN x ELSE NaN)
  ELSE Num(x[1] * y[2] - y[1] * x[2], x[2] * y[2])
Times(x, y) == Num(x[1] * y[1], x[2] * y[2])
Over(x, y) ==
  LET s == IF y[1] < 0 THEN -1 ELSE 1
  IN  Num(s * x[1] * y[2], s * x[2] * y[1])
Positive(x) == x[1] > 0

\* `v || dflt` on an optional number: undefined, 0 and NaN are falsy
OrElse(opt, dflt) ==
  IF opt = {} THEN dflt
  ELSE LET v == CHOOSE v \in opt : TRUE
       IN  IF v = Zero \/ v = NaN THEN dflt ELSE v

RECURSIVE SumSeq(_)
SumSeq(s) == IF s = <<>> THEN Zero ELSE Plus(Head(s), SumSeq(Tail(s)))

RECURSIVE Flatten(_)
Flatten(ss) == IF ss = <<>> THEN <<>> ELSE Head(ss) \o Flatten(Tail(ss))

\* ------------------------------------------------------------ JS Date
IsLeap(y) == y % 4 = 0
DaysInYear(y) == IF IsLeap(y) THEN 366 ELSE 365
DaysInMonth(y, m) ==
  IF m = 1 THEN (IF IsLeap(y) THEN 29 ELSE 28)
  ELSE IF m \in {3, 5, 8, 10} THEN 30 ELSE 31

RECURSIVE DaysBeforeYear(_)
DaysBeforeYear(y) == IF y = 0 THEN 0 ELSE DaysBeforeYear(y - 1) + DaysInYear(y - 1)

RECURSIVE DaysBeforeMonth(_, _)
DaysBeforeMonth(y, m) ==
  IF m = 0 THEN 0 ELSE DaysBeforeMonth(y, m - 1) + DaysInMonth(y, m - 1)

\* new Date(y, m, d): month and day overflow into the following months
DayNumber(y, m, d) ==
  DaysBeforeYear(y + (m \div 12)) + DaysBeforeMonth(y + (m \div 12), m % 12) + d - 1

RECURSIVE YearFrom(_, _)
YearFrom(day, y) == IF day < DaysBeforeYear(y + 1) THEN y ELSE YearFrom(day, y + 1)

RECURSIVE MonthFrom(_, _, _)
MonthFrom(day, y, m) ==
  IF day < DayNumber(y, m + 1, 1) THEN m ELSE MonthFrom(day, y, m + 1)

DayOf(t) == t \div TicksPerDay
TimeOfDay(t) == t % TicksPerDay
GetFullYear(t) == YearFrom(DayOf(t), 0)
GetMonth(t) == MonthFrom(DayOf(t), GetFullYear(t), 0)
GetDate(t) == DayOf(t) - DayNumber(GetFullYear(t), GetMonth(t), 1) + 1
MakeDate(y, m, d, tod) == DayNumber(y, m, d) * TicksPerDay + tod
SetDate(t, d) == MakeDate(GetFullYear(t), GetMonth(t), d, TimeOfDay(t))
SetMonth(t, m) == MakeDate(GetFullYear(t), m, GetDate(t), TimeOfDay(t))

\* Math.ceil(ticks / TicksPerDay)
CeilDays(ticks) == -((-ticks) \div TicksPerDay)


\* ------------------------------------------------------------ the state
VARIABLES
  financialData,   \* App state: [debts, expenses, assets, goals, notifications]
  exchangeRates,   \* App state: currency -> rate (a missing currency is absent)
  mainCurrency,    \* Dashboard prop: the display currency
  clock,           \* wall clock, in ticks
  timer,           \* the pending setTimeout(checkUpdates, 1000) calls: the
                   \* set of ledger snapshots their closures hold
  nextId,          \* the next value of Date.now().toString()
  permission,      \* Notification.permission
  pushed,          \* platform notifications raised by the latest scan
  issued,          \* history: <<notification id, target day>> of every reminder issued
  reissued,        \* history: the latest scan issued a reminder that was in `issued`
  activeMetric     \* Dashboard state: the open drill-down, {} when closed

vars == <<financialData, exchangeRates, mainCurrency, clock, timer, nextId,
          permission, pushed, issued, reissued, activeMetric>>

Currencies == {"USD", "EUR", "RUB"}
Frequencies == {"One-time", "Monthly", "Weekly", "Yearly"}
Metrics == {"netWorth", "forecast", "monthly", "debt"}

StartTick == MakeDate(0, 0, 29, 0)
DEFAULT_RATES == [c \in Currencies |->
                    IF c = "USD" THEN R(1) ELSE IF c = "EUR" THEN Num(92, 100)
                    ELSE Num(925, 10)]

EmptyData == [debts |-> <<>>, expenses |-> <<>>, assets |-> <<>>,
              goals |-> <<>>, notifications |-> <<>>]

Truthy(opt) == opt # {} /\ opt # {0}
TheValue(opt) == CHOOSE v \in opt : TRUE
Midnight(day) == day * TicksPerDay

\* --------------------------------------------------- checkUpdates (scan)
\* 1. auto-credit of one asset
AutoCredit_AnyPending(asset, now) ==
  IF asset.isReceived # {TRUE} /\ asset.date <= now
  THEN [asset EXCEPT !.isReceived = {TRUE}]
  ELSE asset
AutoCredit(asset, now) ==
  IF asset.isReceived # {TRUE} /\ asset.autoCredit = {TRUE} /\ asset.date <= now
  THEN [asset EXCEPT !.isReceived = {TRUE}]
  ELSE asset

\* the recurring due date in the current cycle: this month's day, rolled one
\* month forward when it lies more than a day before now
CurrentMonthDate(day, now) ==
  LET c == SetDate(now, day)
  IN  IF c < now - TicksPerDay THEN SetMonth(c, GetMonth(c) + 1) ELSE c

InWindow_RoundedDown(target, now) ==
  LET diffDays == (target - now) \div TicksPerDay IN diffDays >= 0 /\ diffDays <= 3
InWindow(target, now) ==
  LET diffDays == CeilDays(target - now) IN diffDays >= 0 /\ diffDays <= 3

MakeNotification(id, title, msg, type, now, target, push) ==
  [notif |-> [id |-> id, title |-> title, message |-> msg, date |-> now,
              isRead |-> FALSE, type |-> type],
   target |-> DayOf(target), push |-> push]

\* `notif_exp_${exp.id}_${month}`, `notif_exp_plan_${exp.id}`, `notif_debt_${debt.id}_${month}`
ExpenseNotifId_NoRecord(exp, month) == <<"notif_exp", 0, month>>
ExpenseNotifId(exp, month) == <<"notif_exp", exp.id, month>>
PlanNotifId(exp) == <<"notif_exp_plan", exp.id>>
DebtNotifId(debt, month) == <<"notif_debt", debt.id, month>>

\* the reminders one expense asks for, before the existing-id check
ExpenseReminders(exp, now) ==
  LET monthly ==
        IF exp.frequency = "Monthly" /\ Truthy(exp.dayOfMonth)
        THEN LET cmd == CurrentMonthDate(TheValue(exp.dayOfMonth), now)
             IN  IF InWindow(cmd, now)
                 THEN <<MakeNotification(ExpenseNotifId(exp, GetMonth(cmd)),
                          "Napominanie ob oplate",
                          <<"Skoro oplata", exp.title, exp.amount, exp.currency>>,
                          "expense", now, cmd, <<"FinanceAI: Skoro oplata">>)>>
                 ELSE <<>>
        ELSE <<>>
      planned ==
        IF exp.isPaid # {TRUE} /\ ~Truthy(exp.dayOfMonth)
        THEN IF InWindow(exp.date, now)
             THEN <<MakeNotification(PlanNotifId(exp),
                      "Planovyi rashod",
                      <<"Zaplanirovannyi rashod", exp.title>>,
                      "expense", now, exp.date, <<>>)>>
             ELSE <<>>
        ELSE <<>>
  IN  monthly \o planned

\* the reminder one debt asks for, before the existing-id check
DebtReminders_AnyDebt(debt, now) ==
  LET cmd == CurrentMonthDate(GetDate(debt.date), now)
  IN  IF InWindow(cmd, now)
      THEN <<MakeNotification(DebtNotifId(debt, GetMonth(cmd)),
               "Napominanie o dolge",
               <<"Platezh po kreditu", debt.title>>,
               "debt", now, cmd, <<"FinanceAI: Platezh po dolgu">>)>>
      ELSE <<>>
DebtReminders(debt, now) ==
  IF debt.isInstallment /\ Positive(debt.remainingAmount)
  THEN LET cmd == CurrentMonthDate(GetDate(debt.date), now)
       IN  IF InWindow(cmd, now)
           THEN <<MakeNotification(DebtNotifId(debt, GetMonth(cmd)),
                    "Napominanie o dolge",
                    <<"Platezh po kreditu", debt.title>>,
                    "debt", now, cmd, <<"FinanceAI: Platezh po dolgu">>)>>
           ELSE <<>>
  ELSE <<>>

IsNewId_NoCheck(existingIds, id) == TRUE
IsNewId_PlanUnchecked(existingIds, id) ==
  id \notin existingIds \/ id[1] = "notif_exp_plan"
IsNewId(existingIds, id) == id \notin existingIds

\* [...(newData.notifications || []), ...newNotifications]
Batch_NewFirst(listed, new) == new \o listed
Batch(listed, new) == listed \o new

\* one run of checkUpdates over the snapshot `data` at time `now`
CheckUpdates(data, now, perm) ==
  LET updatedAssets == [i \in 1..Len(data.assets) |-> AutoCredit(data.assets[i], now)]
      credited == updatedAssets # data.assets
      existingIds == {data.notifications[i].id : i \in 1..Len(data.notifications)}
      asked == Flatten([i \in 1..Len(data.expenses) |->
                          ExpenseReminders(data.expenses[i], now)])
               \o Flatten([i \in 1..Len(data.debts) |->
                          DebtReminders(data.debts[i], now)])
      fired == SelectSeq(asked, LAMBDA r : IsNewId(existingIds, r.notif.id))
      newNotifications == [i \in 1..Len(fired) |-> fired[i].notif]
      hasChanges == credited \/ Len(newNotifications) > 0
  IN  [newData |-> [data EXCEPT !.assets = updatedAssets,
                                !.notifications = Batch(@, newNotifications)],
       hasChanges |-> hasChanges,
       fired |-> fired,
       pushes |-> IF perm = "granted"
                  THEN Flatten([i \in 1..Len(fired) |->
                         IF fired[i].push = <<>> THEN <<>>
                         ELSE << <<fired[i].push[1], fired[i].notif.message>> >>])
                  ELSE <<>>]


\* ----------------------------------------------------- App: the handlers
\* the effect on [financialData]: its cleanup clears the pending timer, then
\* a new timer is armed whose checkUpdates closes over the new ledger
Rearm_NoClear(pending, newData) == pending \cup {newData}
Rearm(pending, newData) == {newData}

\* every setFinancialData re-runs the effect (React runs the cleanup and the
\* effect with the commit, before any timer callback)
Commit(newData) ==
  /\ financialData' = newData
  /\ timer' = Rearm(timer, newData)

Frame == UNCHANGED <<exchangeRates, mainCurrency, clock, permission, pushed,
                     issued, reissued, activeMetric>>

\* `rec.date || new Date().toISOString()`
Dated(rec, now) == [rec EXCEPT !.date = IF @ = {} THEN now ELSE TheValue(@)]

Prepend(kind, rec) == [financialData EXCEPT ![kind] = <<rec>> \o @]
Replace_Upsert(kind, rec) ==
  IF \E i \in 1..Len(financialData[kind]) : financialData[kind][i].id = rec.id
  THEN [financialData EXCEPT ![kind] =
          [i \in 1..Len(@) |-> IF @[i].id = rec.id THEN rec ELSE @[i]]]
  ELSE [financialData EXCEPT ![kind] = @ \o <<rec>>]
Replace(kind, rec) ==
  [financialData EXCEPT ![kind] =
     [i \in 1..Len(@) |-> IF @[i].id = rec.id THEN rec ELSE @[i]]]
Remove(kind, id) ==
  [financialData EXCEPT ![kind] = SelectSeq(@, LAMBDA r : r.id # id)]

addDebt(debt) == Commit(Prepend("debts", Dated(debt, clock)))
updateDebt(debt) == Commit(Replace("debts", debt))
deleteDebt(id) == Commit(Remove("debts", id))
addExpense(expense) == Commit(Prepend("expenses", Dated(expense, clock)))
updateExpense(expense) == Commit(Replace("expenses", expense))
deleteExpense(id) == Commit(Remove("expenses", id))
addAsset(asset) == Commit(Prepend("assets", Dated(asset, clock)))
updateAsset(asset) == Commit(Replace("assets", asset))
deleteAsset(id) == Commit(Remove("assets", id))
addGoal(goal) == Commit(Prepend("goals", Dated(goal, clock)))
deleteGoal(id) == Commit(Remove("goals", id))
markNotificationRead_ClearAll(id) ==
  Commit([financialData EXCEPT !.notifications = <<>>])
markNotificationRead(id) == Commit(Remove("notifications", id))

\* the timer fires: checkUpdates runs on the snapshot it closed over and
\* calls setFinancialData only when something changed
Scan ==
  /\ \E snapshot \in timer : \E r \in {CheckUpdates(snapshot, clock, permission)} :
       LET keys == {<<r.fired[i].notif.id, r.fired[i].target>> : i \in 1..Len(r.fired)}
       IN  /\ financialData' = (IF r.hasChanges THEN r.newData ELSE financialData)
           /\ timer' = (IF r.hasChanges THEN Rearm(timer \ {snapshot}, r.newData)
                        ELSE timer \ {snapshot})
           /\ pushed' = r.pushes
           /\ issued' = issued \cup keys
           /\ reissued' = (keys \cap issued # {})
  /\ UNCHANGED <<exchangeRates, mainCurrency, clock, nextId, permission, activeMetric>>

Tick ==
  /\ clock < StartTick + MaxTicks
  /\ clock' = clock + 1
  /\ UNCHANGED <<financialData, exchangeRates, mainCurrency, timer, nextId,
                 permission, pushed, issued, reissued, activeMetric>>


\* ------------------------------------------------- Dashboard: analytics
SumOver(seq, Value(_)) == SumSeq([i \in 1..Len(seq) |-> Value(seq[i])])

\* exchangeRates[curr] || 1: a missing rate, 0 and NaN are falsy
RateOf_NoDefault(rates, curr) ==
  IF curr \in DOMAIN rates THEN rates[curr] ELSE R(1)
RateOf(rates, curr) ==
  IF curr \in DOMAIN rates /\ rates[curr] \notin {Zero, NaN} THEN rates[curr] ELSE R(1)

toDominant_ToAnchor(amount, curr, rates, main) ==
  Over(amount, RateOf(rates, curr))
toDominant_NoDivision(amount, curr, rates, main) ==
  IF curr = main THEN amount ELSE Times(amount, RateOf(rates, main))
toDominant(amount, curr, rates, main) ==
  IF curr = main THEN amount
  ELSE Times(Over(amount, RateOf(rates, curr)), RateOf(rates, main))

SameMonth(date, now) ==
  GetMonth(date) = GetMonth(now) /\ GetFullYear(date) = GetFullYear(now)

\* an asset counts as held: a.isReceived !== false
IsHeld_OnlyTrue(a) == a.isReceived = {TRUE}
IsHeld(a) == a.isReceived # {FALSE}

\* the expense's monthly-equivalent amount (headline, lines 87-91)
ExpenseAmount_WeeklyUnscaled(e, now) ==
  IF e.frequency = "Monthly" THEN e.amount
  ELSE IF e.frequency = "One-time" /\ SameMonth(e.date, now) THEN e.amount
  ELSE IF e.frequency = "Weekly" THEN e.amount
  ELSE IF e.frequency = "Yearly" THEN Over(e.amount, R(12))
  ELSE Zero
ExpenseAmount(e, now) ==
  IF e.frequency = "Monthly" THEN e.amount
  ELSE IF e.frequency = "One-time" /\ SameMonth(e.date, now) THEN e.amount
  ELSE IF e.frequency = "Weekly" THEN Times(e.amount, R(4))
  ELSE IF e.frequency = "Yearly" THEN Over(e.amount, R(12))
  ELSE Zero

\* an unpaid expense that falls into this month's forecast (lines 95-96)
IsPendingExpense_AnyUnpaid(e, now) == e.isPaid = {FALSE}
IsPendingExpense(e, now) ==
  /\ e.isPaid = {FALSE}
  /\ e.frequency = "Monthly" \/ (e.frequency = "One-time" /\ SameMonth(e.date, now))

\* d.monthlyPayment || (d.totalInstallments ? d.totalAmount / d.totalInstallments : 0)
MonthlyPayment(d) ==
  OrElse(d.monthlyPayment,
         IF Truthy(d.totalInstallments)
         THEN Over(d.totalAmount, R(TheValue(d.totalInstallments)))
         ELSE Zero)

\* the per-currency maps of the headline computation
debtSum(data, c) ==
  SumOver(data.debts, LAMBDA d : IF d.currency = c THEN d.remainingAmount ELSE Zero)

assetSum(data, c) ==
  SumOver(data.assets, LAMBDA a : IF a.currency = c /\ IsHeld(a) THEN a.amount ELSE Zero)

monthlyIncome(data, c, now) ==
  SumOver(data.assets, LAMBDA a :
    IF a.currency = c /\ SameMonth(a.date, now) /\ a.type = "Income"
    THEN a.amount ELSE Zero)

monthlyExpense(data, c, now) ==
  Plus(SumOver(data.expenses, LAMBDA e :
         IF e.currency = c /\ Positive(ExpenseAmount(e, now))
         THEN ExpenseAmount(e, now) ELSE Zero),
       SumOver(data.debts, LAMBDA d :
         IF d.currency = c /\ d.isInstallment /\ Positive(MonthlyPayment(d))
         THEN MonthlyPayment(d) ELSE Zero))

projectedCashFlow(data, c, now) ==
  LET held == assetSum(data, c)
      pendingIn == SumOver(data.assets, LAMBDA a :
        IF a.currency = c /\ SameMonth(a.date, now) /\ a.isReceived = {FALSE}
        THEN a.amount ELSE Zero)
      pendingOut == SumOver(data.expenses, LAMBDA e :
        IF e.currency = c /\ IsPendingExpense(e, now) THEN e.amount ELSE Zero)
      payments == SumOver(data.debts, LAMBDA d :
        IF /\ d.currency = c
           /\ d.isInstallment
           /\ Positive(MonthlyPayment(d))
           /\ GetDate(now) <= GetDate(d.date)
        THEN MonthlyPayment(d) ELSE Zero)
  IN  Minus(Minus(Plus(held, pendingIn), pendingOut), payments)

CurrencySeq == <<"USD", "EUR", "RUB">>

\* Object.entries(map).forEach(([c, v]) => total += toDominant(v, c))
Total(Map(_), rates, main) ==
  SumSeq([i \in 1..Len(CurrencySeq) |->
            toDominant(Map(CurrencySeq[i]), CurrencySeq[i], rates, main)])

analytics(data, rates, main, now) ==
  LET totalDebt == Total(LAMBDA c : debtSum(data, c), rates, main)
      totalAssets == Total(LAMBDA c : assetSum(data, c), rates, main)
      totalMonthlyIncome == Total(LAMBDA c : monthlyIncome(data, c, now), rates, main)
      totalMonthlyExpense == Total(LAMBDA c : monthlyExpense(data, c, now), rates, main)
  IN  [dominantCurrency |-> main,
       netWorth |-> Minus(totalAssets, totalDebt),
       totalDebt |-> totalDebt,
       totalAssets |-> totalAssets,
       projectedBalance |-> Total(LAMBDA c : projectedCashFlow(data, c, now), rates, main),
       monthResult |-> Minus(totalMonthlyIncome, totalMonthlyExpense),
       totalMonthlyIncome |-> totalMonthlyIncome,
       totalMonthlyExpense |-> totalMonthlyExpense]

\* ------------------------------------------- Dashboard: getDrilldownData
Item(label, amount, curr, type, rates, main) ==
  [label |-> label, amount |-> amount, currency |-> curr,
   converted |-> toDominant(amount, curr, rates, main), type |-> type]

ItemsOf(seq, Test(_), MakeItem(_)) ==
  LET kept == SelectSeq(seq, Test) IN [i \in 1..Len(kept) |-> MakeItem(kept[i])]

\* d.monthlyPayment || (d.totalAmount / (d.totalInstallments || 1))
DrilldownPayment(d) ==
  OrElse(d.monthlyPayment,
         Over(d.totalAmount,
              IF Truthy(d.totalInstallments) THEN R(TheValue(d.totalInstallments))
              ELSE R(1)))

ForecastItems(data, rates, main, now) ==
  ItemsOf(data.assets, IsHeld,
          LAMBDA a : Item(<<"", a.title>>, a.amount, a.currency, "neutral", rates, main))
  \o ItemsOf(data.assets,
          LAMBDA a : a.isReceived = {FALSE} /\ SameMonth(a.date, now),
          LAMBDA a : Item(<<"Ozhidaetsya", a.title>>, a.amount, a.currency, "plus", rates, main))
  \o ItemsOf(data.expenses,
          LAMBDA e : /\ e.isPaid = {FALSE}
                     /\ \/ e.frequency = "Monthly"
                        \/ (e.frequency = "One-time" /\ SameMonth(e.date, now)),
          LAMBDA e : Item(<<"Plan", e.title>>, e.amount, e.currency, "minus", rates, main))
  \o ItemsOf(data.debts,
          LAMBDA d : /\ d.isInstallment
                     /\ Positive(d.remainingAmount)
                     /\ GetDate(now) <= GetDate(d.date),
          LAMBDA d : Item(<<"Platezh", d.title>>, DrilldownPayment(d), d.currency,
                          "minus", rates, main))

\* the amount the monthly drill-down lists for an expense (lines 193-195)
DrilldownExpenseAmount(e, now) ==
  IF e.frequency = "Monthly" THEN e.amount
  ELSE IF e.frequency = "One-time" /\ SameMonth(e.date, now) THEN e.amount
  ELSE Zero

MonthlyItems(data, rates, main, now) ==
  ItemsOf(data.assets,
          LAMBDA a : a.type = "Income" /\ SameMonth(a.date, now),
          LAMBDA a : Item(<<"", a.title>>, a.amount, a.currency, "plus", rates, main))
  \o ItemsOf(data.expenses,
          LAMBDA e : Positive(DrilldownExpenseAmount(e, now)),
          LAMBDA e : Item(<<"", e.title>>, DrilldownExpenseAmount(e, now), e.currency,
                          "minus", rates, main))
  \o ItemsOf(data.debts,
          LAMBDA d : d.isInstallment,
          LAMBDA d : Item(<<"Kredit", d.title>>, DrilldownPayment(d), d.currency,
                          "minus", rates, main))

DebtItems(data, rates, main) ==
  ItemsOf(data.debts, LAMBDA d : TRUE,
          LAMBDA d : Item(<<"", d.title>>, d.remainingAmount, d.currency, "minus", rates, main))

NetWorthItems_AllAssets(data, rates, main) ==
  ItemsOf(data.assets, LAMBDA a : TRUE,
          LAMBDA a : Item(<<"", a.title>>, a.amount, a.currency, "plus", rates, main))
  \o DebtItems(data, rates, main)
NetWorthItems(data, rates, main) ==
  ItemsOf(data.assets, IsHeld,
          LAMBDA a : Item(<<"", a.title>>, a.amount, a.currency, "plus", rates, main))
  \o DebtItems(data, rates, main)

getDrilldownData(metric, data, rates, main, now) ==
  IF metric = "forecast" THEN ForecastItems(data, rates, main, now)
  ELSE IF metric = "monthly" THEN MonthlyItems(data, rates, main, now)
  ELSE IF metric = "netWorth" THEN NetWorthItems(data, rates, main)
  ELSE DebtItems(data, rates, main)

\* -------------------------------------------- records the callers hand in
\* ReportsView.handleSave, expense form: the date is the chosen day at
\* midnight, dayOfMonth is set for Monthly only, isPaid is the checkbox
ExpenseForm(id, freq, day, dom, paid, amount, cur) ==
  [id |-> id, title |-> "expense", amount |-> amount, currency |-> cur,
   category |-> "Food", frequency |-> freq, date |-> {Midnight(day)},
   dayOfMonth |-> IF freq = "Monthly" THEN {dom} ELSE {}, isPaid |-> {paid}]

\* Dashboard assistant, addExpense: no isPaid, no dayOfMonth, dated now
AssistantExpense(id, freq, amount, cur, now) ==
  [id |-> id, title |-> "expense", amount |-> amount, currency |-> cur,
   category |-> "Food", frequency |-> freq, date |-> {now},
   dayOfMonth |-> {}, isPaid |-> {}]

\* ReportsView.handleSave, asset form
AssetForm(id, type, day, received, auto, amount, cur) ==
  [id |-> id, title |-> "asset", amount |-> amount, currency |-> cur,
   type |-> type, isReceived |-> {received}, autoCredit |-> {auto},
   date |-> {Midnight(day)}]

\* Dashboard assistant, addAsset: no isReceived, no autoCredit, dated now
AssistantAsset(id, type, amount, cur, now) ==
  [id |-> id, title |-> "asset", amount |-> amount, currency |-> cur,
   type |-> type, isReceived |-> {}, autoCredit |-> {}, date |-> {now}]

\* ReportsView.handleSave, debt form (total > 0 installments when installment)
DebtForm(id, isInst, total, paid, amount, cur, day, now) ==
  LET perPayment == Over(amount, R(total))
      paidAmount == IF isInst THEN Times(perPayment, R(paid)) ELSE Zero
  IN  [id |-> id, title |-> "debt", source |-> "bank",
       totalAmount |-> amount, remainingAmount |-> Minus(amount, paidAmount),
       currency |-> cur, isInstallment |-> isInst,
       totalInstallments |-> IF isInst THEN {total} ELSE {},
       paidInstallments |-> IF isInst THEN {paid} ELSE {},
       monthlyPayment |-> IF isInst /\ total > 0 THEN {perPayment} ELSE {},
       date |-> IF isInst THEN {Midnight(day)} ELSE {now}]

\* DebtsView add form: the fields as typed, no monthlyPayment, dated now
DebtEntry(id, isInst, totalOpt, amount, remaining, cur, now) ==
  [id |-> id, title |-> "debt", source |-> "bank",
   totalAmount |-> amount, remainingAmount |-> remaining,
   currency |-> cur, isInstallment |-> isInst,
   totalInstallments |-> IF isInst THEN totalOpt ELSE {},
   paidInstallments |-> {}, monthlyPayment |-> {}, date |-> {now}]

\* Dashboard assistant, addDebt
AssistantDebt(id, amount, cur, now) ==
  [id |-> id, title |-> "debt", source |-> "Unknown",
   totalAmount |-> amount, remainingAmount |-> amount,
   currency |-> cur, isInstallment |-> FALSE,
   totalInstallments |-> {}, paidInstallments |-> {}, monthlyPayment |-> {},
   date |-> {now}]

GoalEntry(id, now) ==
  [id |-> id, title |-> "goal", targetAmount |-> R(100), currentAmount |-> Zero,
   currency |-> "USD", deadline |-> {}, date |-> {now}]

\* ------------------------------------------------ the ledger state machine
\* The inputs of this specification are the few records that make every
\* branch of the scan act: a Monthly expense due in two days, a One-time
\* expense planned for the first day, a received asset, a pending auto-credit
\* asset dated the second day, an open installment debt due on the first day.
DueDay == GetDate(StartTick) + 2

ExpenseInputs(id) ==
  {ExpenseForm(id, "Monthly", DayOf(StartTick), DueDay, TRUE, R(50), "USD"),
   ExpenseForm(id, "One-time", DayOf(StartTick), 1, FALSE, R(50), "USD")}

AssetInputs(id) ==
  {AssetForm(id, "Income", DayOf(StartTick), TRUE, FALSE, R(100), "USD"),
   AssetForm(id, "Income", DayOf(StartTick) + 1, FALSE, TRUE, R(100), "USD")}

DebtInputs(id) ==
  {DebtForm(id, TRUE, 2, 0, R(200), "USD", DayOf(StartTick), clock)}

Stored(rec) == [rec EXCEPT !.date = TheValue(@)]
UsedIds == 1..(nextId - 1)
NotificationIds ==
  {financialData.notifications[i].id : i \in 1..Len(financialData.notifications)}

Fresh == nextId <= MaxId /\ nextId' = nextId + 1
Keep == UNCHANGED nextId

AddDebt == \E d \in DebtInputs(nextId) : addDebt(d) /\ Fresh /\ Frame
UpdateDebt == \E id \in UsedIds : \E d \in DebtInputs(id) :
                updateDebt(Stored(d)) /\ Keep /\ Frame
DeleteDebt == \E id \in UsedIds : deleteDebt(id) /\ Keep /\ Frame
AddExpense == \E e \in ExpenseInputs(nextId) : addExpense(e) /\ Fresh /\ Frame
UpdateExpense == \E id \in UsedIds : \E e \in ExpenseInputs(id) :
                   updateExpense(Stored(e)) /\ Keep /\ Frame
DeleteExpense == \E id \in UsedIds : deleteExpense(id) /\ Keep /\ Frame
AddAsset == \E a \in AssetInputs(nextId) : addAsset(a) /\ Fresh /\ Frame
UpdateAsset == \E id \in UsedIds : \E a \in AssetInputs(id) :
                 updateAsset(Stored(a)) /\ Keep /\ Frame
DeleteAsset == \E id \in UsedIds : deleteAsset(id) /\ Keep /\ Frame
AddGoal == addGoal(GoalEntry(nextId, clock)) /\ Fresh /\ Frame
DeleteGoal == \E id \in UsedIds : deleteGoal(id) /\ Keep /\ Frame
MarkNotificationRead ==
  \E id \in NotificationIds : markNotificationRead(id) /\ Keep /\ Frame

Init ==
  /\ financialData = EmptyData
  /\ exchangeRates = DEFAULT_RATES
  /\ mainCurrency = "USD"
  /\ clock = StartTick
  /\ timer = {EmptyData}
  /\ nextId = 1
  /\ permission = "granted"
  /\ pushed = <<>>
  /\ issued = {}
  /\ reissued = FALSE
  /\ activeMetric = {}

Next ==
  \/ AddDebt \/ UpdateDebt \/ DeleteDebt
  \/ AddExpense \/ UpdateExpense \/ DeleteExpense
  \/ AddAsset \/ UpdateAsset \/ DeleteAsset
  \/ AddGoal \/ DeleteGoal
  \/ MarkNotificationRead
  \/ Scan
  \/ Tick

Spec == Init /\ [][Next]_vars


\* ------------------------------------------- the analytics specification
\* The ledger is filled through the add handlers from the forms and the
\* assistant, then the Dashboard opens a metric's drill-down.
PartialRates == [c \in {"USD", "RUB"} |-> IF c = "USD" THEN R(1) ELSE Zero]
RateTables == {DEFAULT_RATES, PartialRates}

Today == MakeDate(1, 1, 10, 1)
DueDayToday == MakeDate(1, 1, 20, 1)
EarlierThisMonth == DayNumber(1, 1, 5)
LastMonth == DayNumber(1, 0, 5)
LastYear == DayNumber(0, 1, 20)

Money == {<<R(120), "USD">>, <<R(-60), "EUR">>}

MetricExpenses(id) ==
  {ExpenseForm(id, fd[1], fd[2], 5, paid, m[1], m[2]) :
     fd \in {<<"One-time", EarlierThisMonth>>, <<"One-time", LastYear>>,
             <<"Monthly", EarlierThisMonth>>, <<"Monthly", LastMonth>>,
             <<"Weekly", EarlierThisMonth>>, <<"Yearly", LastMonth>>},
     paid \in BOOLEAN, m \in Money}
  \cup {AssistantExpense(id, f, R(120), "USD", clock) : f \in Frequencies}

MetricAssets(id) ==
  {AssetForm(id, tm[1], day, received, FALSE, tm[2], tm[3]) :
     tm \in {<<"Income", R(100), "EUR">>, <<"Balance", R(1000), "USD">>},
     day \in {EarlierThisMonth, LastYear}, received \in BOOLEAN}
  \cup {AssistantAsset(id, "Income", R(100), "EUR", clock)}

MetricDebts(id) ==
  {DebtForm(id, TRUE, 2, paid, R(200), cur, day, clock) :
     paid \in {0, 2}, cur \in {"USD", "EUR"}, day \in {EarlierThisMonth, LastYear}}
  \cup {DebtEntry(id, TRUE, total, R(200), R(200), "USD", clock) : total \in {{}, {4}}}
  \cup {AssistantDebt(id, R(400), "USD", clock)}

LedgerSize ==
  Len(financialData.debts) + Len(financialData.expenses) + Len(financialData.assets)

MFrame == UNCHANGED <<exchangeRates, mainCurrency, clock, permission, pushed,
                      issued, reissued, activeMetric>>
Room == LedgerSize < MaxRecords /\ nextId' = nextId + 1

LoadExpense == \E e \in MetricExpenses(nextId) : addExpense(e) /\ Room /\ MFrame
LoadAsset == \E a \in MetricAssets(nextId) : addAsset(a) /\ Room /\ MFrame
LoadDebt == \E d \in MetricDebts(nextId) : addDebt(d) /\ Room /\ MFrame

\* setActiveMetric(m) on a card click, setActiveMetric(null) on close
OpenMetric ==
  /\ \E m \in Metrics : activeMetric' = {m}
  /\ UNCHANGED <<financialData, exchangeRates, mainCurrency, clock, timer, nextId,
                 permission, pushed, issued, reissued>>

CloseMetric ==
  /\ activeMetric # {}
  /\ activeMetric' = {}
  /\ UNCHANGED <<financialData, exchangeRates, mainCurrency, clock, timer, nextId,
                 permission, pushed, issued, reissued>>

MetricsInit ==
  /\ financialData = EmptyData
  /\ exchangeRates \in RateTables
  /\ mainCurrency \in {"USD", "EUR"}
  /\ clock \in {Today, DueDayToday}
  /\ timer = {EmptyData}
  /\ nextId = 1
  /\ permission = "granted"
  /\ pushed = <<>>
  /\ issued = {}
  /\ reissued = FALSE
  /\ activeMetric = {}

MetricsNext == LoadExpense \/ LoadAsset \/ LoadDebt \/ OpenMetric \/ CloseMetric

SpecMetrics == MetricsInit /\ [][MetricsNext]_vars

\* what the Dashboard shows in the current state
Headline == analytics(financialData, exchangeRates, mainCurrency, clock)
Drilldown(metric) ==
  getDrilldownData(metric, financialData, exchangeRates, mainCurrency, clock)

\* credits and neutral items minus debits, in the display currency
SignedTotal(items) ==
  SumOver(items, LAMBDA it : IF it.type = "minus" THEN Minus(Zero, it.converted)
                             ELSE it.converted)
ConvertedTotal(items) == SumOver(items, LAMBDA it : it.converted)
Convert(amount, curr) == toDominant(amount, curr, exchangeRates, mainCurrency)


\* ------------------------------------------- ReportsView: categoryData
\* numeric comparison of two finite numbers
Less(x, y) == x[1] * y[2] < y[1] * x[2]

\* the keys of the map in insertion order
RECURSIVE Distinct(_)
Distinct(s) ==
  IF s = <<>> THEN <<>>
  ELSE <<Head(s)>> \o SelectSeq(Distinct(Tail(s)), LAMBDA x : x # Head(s))

\* Array.prototype.sort((a, b) => b.value - a.value): stable, descending
RECURSIVE SortDescending(_)
SortDescending(s) ==
  IF s = <<>> THEN <<>>
  ELSE LET rest == SortDescending(Tail(s))
           h == Head(s)
       IN  SelectSeq(rest, LAMBDA x : Less(h.value, x.value))
           \o <<h>>
           \o SelectSeq(rest, LAMBDA x : ~Less(h.value, x.value))

\* e.category || 'Prochee'
CategoryOf(e) == IF e.category = "" THEN "Prochee" ELSE e.category

categoryData_AllMonths(expenses, rates, main, now) ==
  LET monthlyExpenses == expenses
      names == Distinct([i \in 1..Len(monthlyExpenses) |-> CategoryOf(monthlyExpenses[i])])
      Sum(cat) == SumOver(monthlyExpenses, LAMBDA e :
                    IF CategoryOf(e) = cat
                    THEN toDominant(e.amount, e.currency, rates, main) ELSE Zero)
  IN  SortDescending([i \in 1..Len(names) |-> [name |-> names[i], value |-> Sum(names[i])]])
categoryData(expenses, rates, main, now) ==
  LET monthlyExpenses == SelectSeq(expenses, LAMBDA e : SameMonth(e.date, now))
      names == Distinct([i \in 1..Len(monthlyExpenses) |-> CategoryOf(monthlyExpenses[i])])
      Sum(cat) == SumOver(monthlyExpenses, LAMBDA e :
                    IF CategoryOf(e) = cat
                    THEN toDominant(e.amount, e.currency, rates, main) ELSE Zero)
  IN  SortDescending([i \in 1..Len(names) |-> [name |-> names[i], value |-> Sum(names[i])]])

\* ---------------------------------------------- ReportsView: handleSave
\* parseFloat of the text of the amount field (a number input holds "" or a
\* numeral)
ParseFloat(text) ==
  CASE text = "0" -> R(0)
    [] text = "50" -> R(50)
    [] text = "200" -> R(200)
    [] text = "999" -> R(999)
    [] OTHER -> NaN

\* expenseObj: formData.category || 'Obshchee'
SavedExpense(form, id) ==
  [ExpenseForm(id, form.frequency, form.expenseDate, form.dayOfMonth,
               form.expenseIsPaid, ParseFloat(form.amount), form.currency)
     EXCEPT !.title = form.title,
            !.category = IF form.category = "" THEN "Obshchee" ELSE form.category]

SavedAsset(form, id) ==
  [AssetForm(id, form.assetType, form.assetDate, form.assetReceived,
             form.assetAutoCredit, ParseFloat(form.amount), form.currency)
     EXCEPT !.title = form.title]

\* debtObj: an edited debt that is no installment keeps its original date
SavedDebt(form, id, now) ==
  LET d == DebtForm(id, form.isInstallment, form.totalInstallments,
                    form.paidInstallments, ParseFloat(form.amount), form.currency,
                    form.startDate, now)
  IN  [d EXCEPT !.title = form.title,
                !.date = IF ~form.isInstallment /\ form.editingId # {}
                         THEN form.originalDate ELSE @]

handleSave(form) ==
  IF form.title = "" \/ form.amount = "" THEN UNCHANGED vars
  ELSE LET editing == form.editingId # {}
           id == IF editing THEN TheValue(form.editingId) ELSE nextId
       IN  /\ nextId' = (IF editing THEN nextId ELSE nextId + 1)
           /\ CASE form.activeType = "expense" ->
                     IF editing THEN updateExpense(Stored(SavedExpense(form, id)))
                     ELSE addExpense(SavedExpense(form, id))
                [] form.activeType = "income" ->
                     IF editing THEN updateAsset(Stored(SavedAsset(form, id)))
                     ELSE addAsset(SavedAsset(form, id))
                [] form.activeType = "debt" ->
                     IF editing THEN updateDebt(Stored(SavedDebt(form, id, clock)))
                     ELSE addDebt(SavedDebt(form, id, clock))
           /\ Frame

\* ---------------------------------------------- the forms specification
\* The user fills the entry form of ReportsView (new entry or an edit of a
\* stored record) and saves; the assistant adds expenses without a category.
IdsOf(kind) == {financialData[kind][i].id : i \in 1..Len(financialData[kind])}
Editable(kind) == {{}} \cup {{id} : id \in IdsOf(kind)}
DateOf(kind, id) ==
  LET i == CHOOSE i \in 1..Len(financialData[kind]) : financialData[kind][i].id = id
  IN  {financialData[kind][i].date}

\* a form whose title or amount was left empty
Unfilled(forms) ==
  {[f EXCEPT !.title = ""] : f \in forms} \cup {[f EXCEPT !.amount = ""] : f \in forms}

ExpenseFormData ==
  [activeType : {"expense"}, editingId : Editable("expenses"), title : {"entry"},
   amount : {"50", "999"}, currency : {"USD", "EUR"},
   category : {"", "Food", "Rent"}, frequency : {"One-time"},
   dayOfMonth : {1}, expenseIsPaid : {TRUE},
   expenseDate : {EarlierThisMonth, LastMonth, LastYear}]

AssetFormData ==
  [activeType : {"income"}, editingId : Editable("assets"), title : {"entry"},
   amount : {"200"}, currency : {"USD"}, assetType : {"Income"},
   assetReceived : BOOLEAN, assetAutoCredit : {FALSE}, assetDate : {EarlierThisMonth}]

DebtFormData ==
  {[activeType |-> "debt", editingId |-> ed, title |-> "entry", amount |-> a,
    currency |-> "USD", isInstallment |-> inst, totalInstallments |-> total,
    paidInstallments |-> paid, startDate |-> EarlierThisMonth,
    originalDate |-> IF ed = {} THEN {} ELSE DateOf("debts", TheValue(ed))] :
     ed \in Editable("debts"), a \in {"0", "200"},
     inst \in BOOLEAN, total \in {-2, 0, 2}, paid \in {0, 1}}

HasRoom(form) == form.editingId # {} \/ LedgerSize < MaxRecords

SaveExpense == \E form \in ExpenseFormData : HasRoom(form) /\ handleSave(form)
SaveAsset ==
  \E form \in AssetFormData \cup Unfilled(AssetFormData) :
    HasRoom(form) /\ handleSave(form)
SaveDebt == \E form \in DebtFormData : HasRoom(form) /\ handleSave(form)
AssistantAddExpense ==
  \E cat \in {"", "Food"} :
    /\ addExpense([AssistantExpense(nextId, "Monthly", R(50), "USD", clock)
                     EXCEPT !.category = cat])
    /\ Room
    /\ MFrame

FormsInit ==
  /\ financialData = EmptyData
  /\ exchangeRates = DEFAULT_RATES
  /\ mainCurrency \in {"USD", "EUR"}
  /\ clock = Today
  /\ timer = {EmptyData}
  /\ nextId = 1
  /\ permission = "granted"
  /\ pushed = <<>>
  /\ issued = {}
  /\ reissued = FALSE
  /\ activeMetric = {}

FormsNext == SaveExpense \/ SaveAsset \/ SaveDebt \/ AssistantAddExpense

SpecForms == FormsInit /\ [][FormsNext]_vars

\* what ReportsView charts in the current state
CategoryChart == categoryData(financialData.expenses, exchangeRates, mainCurrency, clock)


\* ------------------------------------------------ the scan specification
\* The ledger is filled from the entry form and by the assistant with records
\* whose due dates lie around the start day (the day before, the day itself,
\* 2, 3, 4 and 10 days later), then the debounced scan runs while time passes.
StartDay == DayOf(StartTick)

ScanExpenses(id, now) ==
  {ExpenseForm(id, "Monthly", StartDay, dom, TRUE, R(50), "USD") :
     dom \in {28, 29, 31, 1, 2, 8}}
  \cup {ExpenseForm(id, "Monthly", StartDay, 31, FALSE, R(50), "USD")}
  \cup {ExpenseForm(id, "One-time", day, 1, FALSE, R(50), "USD") :
     day \in {StartDay - 1, StartDay, StartDay + 1, StartDay + 3, StartDay + 4}}
  \cup {ExpenseForm(id, "One-time", StartDay, 1, TRUE, R(50), "USD")}
  \cup {AssistantExpense(id, f, R(50), "USD", now) : f \in {"Monthly", "One-time"}}

ScanAssets(id, now) ==
  {AssetForm(id, "Income", day, ra[1], ra[2], R(100), "USD") :
     day \in {StartDay - 1, StartDay, StartDay + 1},
     ra \in {<<TRUE, FALSE>>, <<FALSE, FALSE>>, <<FALSE, TRUE>>}}
  \cup {AssistantAsset(id, "Income", R(100), "USD", now)}

ScanDebts(id, now) ==
  {DebtForm(id, TRUE, 2, 0, R(200), "USD", DayNumber(0, 0, dom), now) :
     dom \in {28, 29, 31, 1, 2, 8}}
  \cup {DebtForm(id, TRUE, 2, 2, R(200), "USD", StartDay, now),
        DebtForm(id, FALSE, 2, 0, R(200), "USD", StartDay, now),
        AssistantDebt(id, R(400), "USD", now)}

EnterExpense == \E e \in ScanExpenses(nextId, clock) : addExpense(e) /\ Room /\ MFrame
EnterAsset == \E a \in ScanAssets(nextId, clock) : addAsset(a) /\ Room /\ MFrame
EnterDebt == \E d \in ScanDebts(nextId, clock) : addDebt(d) /\ Room /\ MFrame

ScanNext == EnterExpense \/ EnterAsset \/ EnterDebt \/ Scan \/ Tick

SpecScan == Init /\ [][ScanNext]_vars


\* --------------------------------------------------- App: start and reset
\* an ISO date-time `y-m-dThour:00:00Z` (year counted from 2020, month from 0)
At(y, m, d, hour) == MakeDate(y, m, d, (hour * TicksPerDay) \div 24)

INITIAL_DATA ==
  [debts |-> <<
     [id |-> 1, title |-> "iPhone 15 Pro", source |-> "ReStore",
      totalAmount |-> R(1500), remainingAmount |-> R(1000), currency |-> "USD",
      isInstallment |-> TRUE, totalInstallments |-> {12}, paidInstallments |-> {4},
      monthlyPayment |-> {R(125)}, date |-> At(3, 10, 15, 10)],
     [id |-> 2, title |-> "Ipoteka", source |-> "SberBank",
      totalAmount |-> R(5000000), remainingAmount |-> R(4200000), currency |-> "RUB",
      isInstallment |-> TRUE, totalInstallments |-> {240}, paidInstallments |-> {38},
      monthlyPayment |-> {R(28500)}, date |-> At(0, 4, 20, 10)] >>,
   expenses |-> <<
     [id |-> 1, title |-> "Arenda kvartiry", amount |-> R(45000), currency |-> "RUB",
      category |-> "Zhilye", frequency |-> "Monthly", date |-> At(4, 1, 1, 10),
      dayOfMonth |-> {1}, isPaid |-> {TRUE}],
     [id |-> 2, title |-> "Podpiska Yandex", amount |-> R(299), currency |-> "RUB",
      category |-> "Razvlecheniya", frequency |-> "Monthly", date |-> At(4, 1, 5, 10),
      dayOfMonth |-> {5}, isPaid |-> {TRUE}],
     [id |-> 3, title |-> "Sportzal", amount |-> R(25000), currency |-> "RUB",
      category |-> "Zdorovye", frequency |-> "Yearly", date |-> At(4, 0, 10, 10),
      dayOfMonth |-> {}, isPaid |-> {TRUE}],
     [id |-> 4, title |-> "Podarok na DR", amount |-> R(5000), currency |-> "RUB",
      category |-> "Podarki", frequency |-> "Monthly", date |-> StartTick,
      dayOfMonth |-> {}, isPaid |-> {FALSE}] >>,
   assets |-> <<
     [id |-> 1, title |-> "Osnovnaya rabota", amount |-> R(120000), currency |-> "RUB",
      type |-> "Income", isReceived |-> {TRUE}, autoCredit |-> {},
      date |-> At(4, 1, 10, 10)],
     [id |-> 2, title |-> "Nakopitelnyi schet", amount |-> R(350000), currency |-> "RUB",
      type |-> "Balance", isReceived |-> {TRUE}, autoCredit |-> {},
      date |-> At(3, 11, 1, 10)],
     [id |-> 3, title |-> "Budushchaya premiya", amount |-> R(50000), currency |-> "RUB",
      type |-> "Income", isReceived |-> {FALSE}, autoCredit |-> {TRUE},
      date |-> At(4, 11, 25, 10)] >>,
   goals |-> <<
     [id |-> 1, title |-> "Podushka bezopasnosti", targetAmount |-> R(500000),
      currentAmount |-> R(350000), currency |-> "RUB",
      deadline |-> {At(4, 11, 31, 0)}, date |-> At(3, 8, 1, 10)],
     [id |-> 2, title |-> "Zakryt kreditku", targetAmount |-> R(100000),
      currentAmount |-> R(20000), currency |-> "RUB",
      deadline |-> {}, date |-> At(4, 0, 15, 10)] >>,
   notifications |-> <<>>]

\* JSON null: a value that has no fields
Null == <<>>

\* JSON.parse on the texts the store may hold; any other text is a SyntaxError
JSONParse(text) ==
  CASE text = "null" -> [ok |-> TRUE, value |-> Null]
    [] text = "{\"debts\":[]}" -> [ok |-> TRUE, value |-> [debts |-> <<>>]]
    [] text = "{\"debts\":[],\"expenses\":[],\"assets\":[],\"goals\":[],\"notifications\":[]}" ->
         [ok |-> TRUE, value |-> EmptyData]
    [] text = "{\"USD\":1,\"RUB\":0}" -> [ok |-> TRUE, value |-> PartialRates]
    [] OTHER -> [ok |-> FALSE, value |-> Null]

\* try { saved ? JSON.parse(saved) : dflt } catch { dflt }, where saved is
\* localStorage.getItem(key): {} when the key is absent
Load(saved, dflt) ==
  IF saved = {} \/ saved = {""} THEN dflt
  ELSE LET parsed == JSONParse(TheValue(saved))
       IN  IF parsed.ok THEN parsed.value ELSE dflt

\* the value has the collections every render and scan reads
IsLedger(value) ==
  DOMAIN value = {"debts", "expenses", "assets", "goals", "notifications"}

clearAllData == Commit(EmptyData)
resetData == Commit(INITIAL_DATA) /\ exchangeRates' = DEFAULT_RATES

\* ------------------------------------------------ the start specification
\* The application starts from what localStorage holds under finance_data and
\* finance_rates; once mounted, the scan runs, time passes, reminders are
\* acknowledged and the settings buttons clear or reset the data.  A render
\* that reads the collections of a value without them throws, so nothing is
\* mounted and no effect is armed.
SavedData ==
  {{}, {""}, {"{oops"}, {"null"}, {"{\"debts\":[]}"},
   {"{\"debts\":[],\"expenses\":[],\"assets\":[],\"goals\":[],\"notifications\":[]}"}}
SavedRates == {{}, {"{oops"}, {"null"}, {"{\"USD\":1,\"RUB\":0}"}}

Mounted == IsLedger(financialData)

BootInit ==
  /\ financialData \in {Load(saved, INITIAL_DATA) : saved \in SavedData}
  /\ exchangeRates \in {Load(saved, DEFAULT_RATES) : saved \in SavedRates}
  /\ mainCurrency = "USD"
  /\ clock = StartTick
  /\ timer = (IF Mounted THEN {financialData} ELSE {})
  /\ nextId = 5
  /\ permission = "granted"
  /\ pushed = <<>>
  /\ issued = {}
  /\ reissued = FALSE
  /\ activeMetric = {}

BootFrame == UNCHANGED <<mainCurrency, clock, nextId, permission, pushed, issued,
                         reissued, activeMetric>>

BootScan == Mounted /\ Scan
BootTick == Mounted /\ Tick
BootAcknowledge == Mounted /\ MarkNotificationRead
ClearAllData == Mounted /\ clearAllData /\ BootFrame /\ UNCHANGED exchangeRates
ResetData == Mounted /\ resetData /\ BootFrame

BootNext == BootScan \/ BootTick \/ BootAcknowledge \/ ClearAllData \/ ResetData

SpecBoot == BootInit /\ [][BootNext]_vars


\* ------------------------------------------- Settings: rates and currency
\* the rates modal: typing in a currency's field stores parseFloat of the
\* text in tempRates (the USD field is disabled)
EditedRates(tempRates, curr, text) ==
  [c \in DOMAIN tempRates \cup {curr} |->
     IF c = curr THEN ParseFloat(text) ELSE tempRates[c]]

handleSaveRates(tempRates) == exchangeRates' = tempRates
onUpdateMainCurrency(c) == mainCurrency' = c

\* ------------------------------------------------ the rates specification
\* The rate table starts as the default table or as a stored table with a
\* missing and a zero rate; the user edits rates, changes the display
\* currency, adds records in every currency and opens the drill-downs.
RateTexts == {"0", "50", ""}

RateAssets(id) ==
  {AssetForm(id, "Income", EarlierThisMonth, TRUE, FALSE, R(100), c) : c \in Currencies}
RateExpenses(id) ==
  {ExpenseForm(id, "Monthly", EarlierThisMonth, 5, FALSE, R(50), c) : c \in Currencies}
RateDebts(id) ==
  {DebtForm(id, TRUE, 2, 0, R(200), c, EarlierThisMonth, clock) : c \in Currencies}

SaveRates ==
  /\ \E c \in Currencies \ {"USD"} : \E text \in RateTexts :
       handleSaveRates(EditedRates(exchangeRates, c, text))
  /\ UNCHANGED <<financialData, mainCurrency, clock, timer, nextId, permission,
                 pushed, issued, reissued, activeMetric>>

UpdateMainCurrency ==
  /\ \E c \in Currencies : onUpdateMainCurrency(c)
  /\ UNCHANGED <<financialData, exchangeRates, clock, timer, nextId, permission,
                 pushed, issued, reissued, activeMetric>>

HoldAsset == \E a \in RateAssets(nextId) : addAsset(a) /\ Room /\ MFrame
PlanExpense == \E e \in RateExpenses(nextId) : addExpense(e) /\ Room /\ MFrame
OweDebt == \E d \in RateDebts(nextId) : addDebt(d) /\ Room /\ MFrame

RatesInit ==
  /\ financialData = EmptyData
  /\ exchangeRates \in RateTables
  /\ mainCurrency = "USD"
  /\ clock = Today
  /\ timer = {EmptyData}
  /\ nextId = 1
  /\ permission = "granted"
  /\ pushed = <<>>
  /\ issued = {}
  /\ reissued = FALSE
  /\ activeMetric = {}

RatesNext ==
  \/ SaveRates \/ UpdateMainCurrency
  \/ HoldAsset \/ PlanExpense \/ OweDebt
  \/ OpenMetric \/ CloseMetric

SpecRates == RatesInit /\ [][RatesNext]_vars


\* --------------------------------------------- the calendar specification
\* Recurring records are entered at the end of January and time goes by: the
\* clock moves to the same day of the next month or of the next year, a
\* record entered or a reminder acknowledged later arms the scan again.  Due days 1 and 31 make the scan
\* meet the month's end in months of 29, 30 and 31 days.
MonthIndex(t) == GetFullYear(t) * 12 + GetMonth(t)

CalendarExpenses(id) ==
  {ExpenseForm(id, "Monthly", StartDay, dom, TRUE, R(50), "USD") : dom \in {1, 31}}
CalendarDebts(id, now) ==
  {DebtForm(id, TRUE, 2, 0, R(200), "USD", DayNumber(0, 0, 31), now)}

NoteExpense == \E e \in CalendarExpenses(nextId) : addExpense(e) /\ Room /\ MFrame
NoteDebt == \E d \in CalendarDebts(nextId, clock) : addDebt(d) /\ Room /\ MFrame

NextMonth ==
  /\ GetMonth(clock) < GetMonth(StartTick) + MaxMonths
  /\ clock' = SetMonth(clock, GetMonth(clock) + 1)
  /\ UNCHANGED <<financialData, exchangeRates, mainCurrency, timer, nextId,
                 permission, pushed, issued, reissued, activeMetric>>

NextYear ==
  /\ GetFullYear(clock) < GetFullYear(StartTick) + MaxYears
  /\ clock' = MakeDate(GetFullYear(clock) + 1, GetMonth(clock), GetDate(clock),
                       TimeOfDay(clock))
  /\ UNCHANGED <<financialData, exchangeRates, mainCurrency, timer, nextId,
                 permission, pushed, issued, reissued, activeMetric>>

CalendarNext ==
  \/ NoteExpense \/ NoteDebt
  \/ MarkNotificationRead
  \/ Scan
  \/ NextMonth \/ NextYear

SpecCalendar == Init /\ [][CalendarNext]_vars


\* ------------------------------------------------- the timer specification
\* The ledger state machine under the scheduling the code has: a pending
\* timer does fire and time does pass (weak fairness), while no user action
\* is ever forced.
SpecTimer == Init /\ [][Next]_vars /\ WF_vars(Scan) /\ WF_vars(Tick)


\* =================================================================== claims
Notifications == financialData.notifications
FirstScan == CheckUpdates(financialData, clock, permission)
SecondScan == CheckUpdates(FirstScan.newData, clock, permission)

\* C1: a second scan at the same `now`, run on the first scan's output ledger,
\* fires no notification and changes no field of the ledger.
C1_ScanIdempotent ==
  /\ SecondScan.fired = <<>>
  /\ ~SecondScan.hasChanges
  /\ SecondScan.newData = FirstScan.newData

\* a state whose scan both credits an asset and fires a reminder
C1_Witness ==
  /\ FirstScan.fired # <<>>
  /\ FirstScan.newData.assets # financialData.assets

\* C2: the notification list never holds two entries with the same id.
C2_UniqueNotificationIds ==
  \A i, j \in 1..Len(Notifications) :
    Notifications[i].id = Notifications[j].id => i = j

\* a list holding two reminders of the same record
C2_Witness ==
  /\ Len(Notifications) >= 2
  /\ \E i, j \in 1..Len(Notifications) :
       /\ i # j
       /\ Notifications[i].id[2] = Notifications[j].id[2]

\* C3: no scan issues a reminder for a record and due date for which a
\* reminder was issued before (also after it was acknowledged and removed).
C3_IssuedAtMostOnce == ~reissued

\* C4: the monthly drill-down items (credits minus debits) sum to monthResult.
C4_MonthlyDrilldownMatches ==
  activeMetric = {"monthly"} =>
    SignedTotal(Drilldown("monthly")) = Headline.monthResult

\* C5: the forecast drill-down items (neutral and credits minus debits) sum to
\* projectedBalance.
C5_ForecastDrilldownMatches ==
  activeMetric = {"forecast"} =>
    SignedTotal(Drilldown("forecast")) = Headline.projectedBalance

\* C6: the netWorth drill-down items (credits minus debits) sum to netWorth and
\* the converted values of the totalDebt drill-down items sum to totalDebt.
C6_NetWorthAndDebtDrilldownMatch ==
  /\ activeMetric = {"netWorth"} =>
       SignedTotal(Drilldown("netWorth")) = Headline.netWorth
  /\ activeMetric = {"debt"} =>
       ConvertedTotal(Drilldown("debt")) = Headline.totalDebt

\* the netWorth drill-down is open on a ledger with a pending asset and a
\* held asset in a currency other than the display currency
C6_Witness ==
  /\ activeMetric = {"netWorth"}
  /\ \E i, j \in 1..Len(financialData.assets) :
       /\ financialData.assets[i].isReceived = {FALSE}
       /\ financialData.assets[j].isReceived # {FALSE}
       /\ financialData.assets[j].currency # mainCurrency
       /\ financialData.assets[j].currency \in DOMAIN exchangeRates

\* C7: netWorth is the converted sum of the assets whose isReceived is not
\* false minus totalDebt, totalDebt is the converted sum of remainingAmount
\* over all debts; one received 1000 USD asset and one 400 USD debt give 600
\* in USD under any rate table.
ReceivedAssetsTotal ==
  SumOver(financialData.assets, LAMBDA a :
    IF a.isReceived = {FALSE} THEN Zero ELSE Convert(a.amount, a.currency))
RemainingDebtTotal ==
  SumOver(financialData.debts, LAMBDA d : Convert(d.remainingAmount, d.currency))
IsNetWorthScenario ==
  /\ mainCurrency = "USD"
  /\ financialData.expenses = <<>>
  /\ Len(financialData.assets) = 1
  /\ Len(financialData.debts) = 1
  /\ financialData.assets[1].amount = R(1000)
  /\ financialData.assets[1].currency = "USD"
  /\ financialData.assets[1].isReceived = {TRUE}
  /\ financialData.debts[1].remainingAmount = R(400)
  /\ financialData.debts[1].currency = "USD"
C7_NetWorth ==
  /\ Headline.totalDebt = RemainingDebtTotal
  /\ Headline.netWorth = Minus(ReceivedAssetsTotal, RemainingDebtTotal)
  /\ IsNetWorthScenario => Headline.netWorth = R(600)

\* a ledger with an asset whose isReceived is unspecified, next to a pending
\* asset or a debt
C7_Witness ==
  /\ \E i \in 1..Len(financialData.assets) : financialData.assets[i].isReceived = {}
  /\ LedgerSize = 2
  /\ Headline.netWorth # Zero

\* C8: an installment debt's monthly payment is subtracted from
\* projectedBalance exactly when its remainingAmount > 0 and today's
\* day-of-month is <= the day-of-month of the debt's date.
WithoutDebt(i) ==
  [financialData EXCEPT !.debts = SelectSeq([k \in 1..Len(@) |-> <<k, @[k]>>],
                                            LAMBDA p : p[1] # i)]
ProjectedWithoutDebt(i) ==
  LET rest == WithoutDebt(i)
      data == [rest EXCEPT !.debts = [k \in 1..Len(@) |-> @[k][2]]]
  IN  analytics(data, exchangeRates, mainCurrency, clock).projectedBalance
PaymentIsDue(d) ==
  /\ d.isInstallment
  /\ Positive(d.remainingAmount)
  /\ GetDate(clock) <= GetDate(d.date)
C8_DebtPaymentInForecast ==
  \A i \in 1..Len(financialData.debts) :
    LET d == financialData.debts[i]
    IN  Headline.projectedBalance =
          Minus(ProjectedWithoutDebt(i),
                IF PaymentIsDue(d) THEN Convert(MonthlyPayment(d), d.currency) ELSE Zero)

\* C9: without installment debts, projectedBalance is the converted sum of the
\* assets not pending, plus the pending assets dated this month, minus the
\* unpaid expenses that are Monthly or One-time dated this month.
NoInstallmentDebts ==
  \A i \in 1..Len(financialData.debts) : ~financialData.debts[i].isInstallment
PendingAssetsTotal ==
  SumOver(financialData.assets, LAMBDA a :
    IF a.isReceived = {FALSE} /\ SameMonth(a.date, clock)
    THEN Convert(a.amount, a.currency) ELSE Zero)
PendingExpensesTotal ==
  SumOver(financialData.expenses, LAMBDA e :
    IF /\ e.isPaid = {FALSE}
       /\ \/ e.frequency = "Monthly"
          \/ (e.frequency = "One-time" /\ SameMonth(e.date, clock))
    THEN Convert(e.amount, e.currency) ELSE Zero)
C9_ProjectedBalance ==
  NoInstallmentDebts =>
    Headline.projectedBalance =
      Minus(Plus(ReceivedAssetsTotal, PendingAssetsTotal), PendingExpensesTotal)

\* an unpaid Weekly or Yearly expense next to an unpaid Monthly expense of
\* another month
C9_Witness ==
  /\ NoInstallmentDebts
  /\ \E i, j \in 1..Len(financialData.expenses) :
       /\ financialData.expenses[i].isPaid = {FALSE}
       /\ financialData.expenses[i].frequency \in {"Weekly", "Yearly"}
       /\ financialData.expenses[j].isPaid = {FALSE}
       /\ financialData.expenses[j].frequency = "Monthly"
       /\ ~SameMonth(financialData.expenses[j].date, clock)
       /\ financialData.expenses[j].currency # mainCurrency

\* C10 as stated: monthResult is this month's Income minus the normalised
\* amount of every expense minus the monthly payment of every installment debt.
IncomeTotal ==
  SumOver(financialData.assets, LAMBDA a :
    IF a.type = "Income" /\ SameMonth(a.date, clock)
    THEN Convert(a.amount, a.currency) ELSE Zero)
Normalised(e) ==
  IF e.frequency = "Monthly" THEN e.amount
  ELSE IF e.frequency = "One-time"
       THEN (IF SameMonth(e.date, clock) THEN e.amount ELSE Zero)
  ELSE IF e.frequency = "Weekly" THEN Times(R(4), e.amount)
  ELSE Over(e.amount, R(12))
C10_MonthlyResultEveryExpense ==
  Headline.monthResult =
    Minus(Minus(IncomeTotal,
                SumOver(financialData.expenses, LAMBDA e :
                  Convert(Normalised(e), e.currency))),
          SumOver(financialData.debts, LAMBDA d :
            IF d.isInstallment THEN Convert(MonthlyPayment(d), d.currency) ELSE Zero))

\* C10, amended: only expenses with a positive normalised amount and
\* installment debts with a positive monthly payment are subtracted.
C10_MonthlyResult ==
  Headline.monthResult =
    Minus(Minus(IncomeTotal,
                SumOver(financialData.expenses, LAMBDA e :
                  IF Normalised(e)[1] > 0 THEN Convert(Normalised(e), e.currency)
                  ELSE Zero)),
          SumOver(financialData.debts, LAMBDA d :
            IF d.isInstallment /\ MonthlyPayment(d)[1] > 0
            THEN Convert(MonthlyPayment(d), d.currency) ELSE Zero))

\* a Weekly or Yearly expense next to an installment debt whose due day has
\* passed this month
C10_Witness ==
  /\ \E i \in 1..Len(financialData.expenses) :
       /\ financialData.expenses[i].frequency \in {"Weekly", "Yearly"}
       /\ financialData.expenses[i].amount[1] > 0
  /\ \E i \in 1..Len(financialData.debts) :
       /\ financialData.debts[i].isInstallment
       /\ GetDate(financialData.debts[i].date) < GetDate(clock)
       /\ Headline.monthResult # Zero

\* C11: the category breakdown lists exactly the categories of the expenses
\* dated in the current month and year (empty category under the generic
\* label), each with the converted sum of those expenses, whatever the debts
\* of the ledger; the list is sorted by value, descending; two "Food" expenses
\* of 50 (this month) and 999 (last month) give Food = 50.
ThisMonthIn(cat) ==
  SumOver(financialData.expenses, LAMBDA e :
    IF /\ GetMonth(e.date) = GetMonth(clock)
       /\ GetFullYear(e.date) = GetFullYear(clock)
       /\ (IF e.category = "" THEN "Prochee" ELSE e.category) = cat
    THEN Convert(e.amount, e.currency) ELSE Zero)
HasThisMonth(cat) ==
  \E i \in 1..Len(financialData.expenses) :
    LET e == financialData.expenses[i]
    IN  /\ GetMonth(e.date) = GetMonth(clock)
        /\ GetFullYear(e.date) = GetFullYear(clock)
        /\ (IF e.category = "" THEN "Prochee" ELSE e.category) = cat
IsFoodScenario ==
  /\ Len(financialData.expenses) = 2
  /\ \E i, j \in 1..2 :
       /\ financialData.expenses[i].category = "Food"
       /\ financialData.expenses[i].amount = R(50)
       /\ financialData.expenses[i].currency = mainCurrency
       /\ DayOf(financialData.expenses[i].date) = EarlierThisMonth
       /\ financialData.expenses[j].category = "Food"
       /\ financialData.expenses[j].amount = R(999)
       /\ DayOf(financialData.expenses[j].date) = LastMonth
C11_CategoryBreakdown ==
  /\ \A cat \in {"Food", "Rent", "Obshchee", "Prochee", ""} :
       /\ HasThisMonth(cat) <=>
            \E k \in 1..Len(CategoryChart) : CategoryChart[k].name = cat
       /\ \A k \in 1..Len(CategoryChart) :
            CategoryChart[k].name = cat => CategoryChart[k].value = ThisMonthIn(cat)
  /\ \A k \in 1..Len(CategoryChart) :
       CategoryChart[k].name \in {"Food", "Rent", "Obshchee", "Prochee"}
  /\ \A k, l \in 1..Len(CategoryChart) :
       /\ k < l => ~Less(CategoryChart[k].value, CategoryChart[l].value)
       /\ CategoryChart[k].name = CategoryChart[l].name => k = l
  /\ IsFoodScenario => CategoryChart = <<[name |-> "Food", value |-> R(50)]>>

\* the ledger of the example: Food 50 this month, Food 999 last month
C11_Witness == IsFoodScenario

\* C18: a save with invalid numeric input is rejected, so no stored debt is an
\* installment debt with zero or negative totalInstallments, and no stored
\* debt has a NaN or infinite remainingAmount or monthlyPayment.
C18_InvalidSaveRejected ==
  \A i \in 1..Len(financialData.debts) :
    LET d == financialData.debts[i]
    IN  /\ IsFinite(d.totalAmount)
        /\ IsFinite(d.remainingAmount)
        /\ d.monthlyPayment # {} => IsFinite(TheValue(d.monthlyPayment))
        /\ d.isInstallment => TheValue(d.totalInstallments) > 0

\* ------------------------------------------------------- claims on the scan
\* the whole number of days from now to the target, rounded up
DaysUntil(target) ==
  CHOOSE n \in -400..400 :
    /\ n * TicksPerDay >= target - clock
    /\ (n - 1) * TicksPerDay < target - clock

\* the ids of the reminders the scan fires in the current state
FiredIds == {FirstScan.fired[i].notif.id : i \in 1..Len(FirstScan.fired)}

\* the due date the scan looks at, for each kind of source
MonthlyTarget(e) == CurrentMonthDate(TheValue(e.dayOfMonth), clock)
DebtTarget(d) == CurrentMonthDate(GetDate(d.date), clock)
Due(target, id) == DaysUntil(target) \in 0..3 /\ id \notin NotificationIds

ReminderWindow ==
  /\ \A i \in 1..Len(financialData.expenses) :
       LET e == financialData.expenses[i]
       IN  /\ (e.frequency = "Monthly" /\ Truthy(e.dayOfMonth)) =>
                (<<"notif_exp", e.id, GetMonth(MonthlyTarget(e))>> \in FiredIds
                   <=> Due(MonthlyTarget(e), <<"notif_exp", e.id, GetMonth(MonthlyTarget(e))>>))
           /\ (e.isPaid # {TRUE} /\ ~Truthy(e.dayOfMonth)) =>
                (<<"notif_exp_plan", e.id>> \in FiredIds
                   <=> Due(e.date, <<"notif_exp_plan", e.id>>))
  /\ \A i \in 1..Len(financialData.debts) :
       LET d == financialData.debts[i]
       IN  (d.isInstallment /\ d.remainingAmount[1] > 0) =>
             (<<"notif_debt", d.id, GetMonth(DebtTarget(d))>> \in FiredIds
                <=> Due(DebtTarget(d), <<"notif_debt", d.id, GetMonth(DebtTarget(d))>>))

\* a ledger holding just one paid Monthly expense due `days` days from today
OnlyMonthlyDueIn(days) ==
  /\ financialData.debts = <<>>
  /\ financialData.notifications = <<>>
  /\ Len(financialData.expenses) = 1
  /\ financialData.expenses[1].frequency = "Monthly"
  /\ financialData.expenses[1].dayOfMonth # {}
  /\ DayOf(MonthlyTarget(financialData.expenses[1])) = DayOf(clock) + days

WindowExamples ==
  /\ OnlyMonthlyDueIn(2) => Len(FirstScan.fired) = 1
  /\ OnlyMonthlyDueIn(10) => FirstScan.fired = <<>>

C13_PlannedOnlyIfUnpaid ==
  \A i \in 1..Len(financialData.expenses) :
    LET e == financialData.expenses[i]
    IN  <<"notif_exp_plan", e.id>> \in FiredIds =>
          e.isPaid = {FALSE} /\ e.dayOfMonth = {}

\* C14: one scan turns isReceived to true for exactly the assets with
\* isReceived = false, autoCredit = true and date <= now; every other asset and
\* every other field stay as they are.
C14_AutoCredit ==
  /\ Len(FirstScan.newData.assets) = Len(financialData.assets)
  /\ \A i \in 1..Len(financialData.assets) :
       LET a == financialData.assets[i]
           after == FirstScan.newData.assets[i]
       IN  IF a.isReceived = {FALSE} /\ a.autoCredit = {TRUE} /\ a.date <= clock
           THEN /\ after.isReceived = {TRUE}
                /\ [after EXCEPT !.isReceived = {FALSE}] = a
           ELSE after = a

\* a scan has credited an asset, and the ledger holds a pending asset that
\* the next scan must leave alone
C14_Witness ==
  \E i, j \in 1..Len(financialData.assets) :
    /\ financialData.assets[i].isReceived = {TRUE}
    /\ financialData.assets[i].autoCredit = {TRUE}
    /\ financialData.assets[j].isReceived = {FALSE}
    /\ \/ financialData.assets[j].autoCredit = {FALSE}
       \/ financialData.assets[j].date > clock

WithoutIndex(seq, k) == [i \in 1..(Len(seq) - 1) |-> IF i < k THEN seq[i] ELSE seq[i + 1]]
AcknowledgeStep ==
  /\ Remove("notifications", <<"notif_none">>) = financialData
  /\ Len(financialData'.notifications) < Len(Notifications) =>
       /\ \E k \in 1..Len(Notifications) :
            /\ financialData'.notifications = WithoutIndex(Notifications, k)
            /\ \A i \in 1..Len(financialData'.notifications) :
                 financialData'.notifications[i].id # Notifications[k].id
       /\ financialData'.debts = financialData.debts
       /\ financialData'.expenses = financialData.expenses
       /\ financialData'.assets = financialData.assets
       /\ financialData'.goals = financialData.goals
C16_Acknowledge == [][AcknowledgeStep]_vars

\* an issued reminder has been acknowledged while another one is still listed
C16_Witness ==
  /\ Notifications # <<>>
  /\ \E k \in issued : k[1] \notin NotificationIds

\* C17: with platform permission granted, the scan raises one platform
\* notification per new notification, carrying that notification's message.
C17_PlatformNotification ==
  permission = "granted" =>
    /\ Len(FirstScan.pushes) = Len(FirstScan.fired)
    /\ \A i \in 1..Len(FirstScan.fired) :
         \E k \in 1..Len(FirstScan.pushes) :
           FirstScan.pushes[k][2] = FirstScan.fired[i].notif.message

\* C20: an assistant debt is stored with isInstallment = false and
\* remainingAmount = totalAmount, and a ledger whose expenses and assets leave
\* isPaid / isReceived unspecified gives the same metrics, drill-downs and scan
\* result as the ledger with these fields set to true.
Defaulted(data) ==
  [data EXCEPT
     !.expenses = [i \in 1..Len(@) |->
                     [@[i] EXCEPT !.isPaid = IF @ = {} THEN {TRUE} ELSE @]],
     !.assets = [i \in 1..Len(@) |->
                     [@[i] EXCEPT !.isReceived = IF @ = {} THEN {TRUE} ELSE @]]]
C20_AssistantDefaults ==
  /\ \A i \in 1..Len(financialData.debts) :
       financialData.debts[i].source = "Unknown" =>
         /\ ~financialData.debts[i].isInstallment
         /\ financialData.debts[i].remainingAmount = financialData.debts[i].totalAmount
  /\ Headline = analytics(Defaulted(financialData), exchangeRates, mainCurrency, clock)
  /\ \A m \in Metrics :
       Drilldown(m) =
         getDrilldownData(m, Defaulted(financialData), exchangeRates, mainCurrency, clock)
  /\ LET r == CheckUpdates(Defaulted(financialData), clock, permission)
     IN  /\ {r.fired[i].notif.id : i \in 1..Len(r.fired)} = FiredIds
         /\ \A i \in 1..Len(financialData.assets) :
              r.newData.assets[i].isReceived = {TRUE}
                <=> FirstScan.newData.assets[i].isReceived # {FALSE}

\* C19: whatever the store holds, the application runs on a ledger (a value
\* with the five collections) and on a rate table (a value with rates).
C19_StartsWithLedger ==
  /\ IsLedger(financialData)
  /\ DOMAIN exchangeRates # {}
  /\ DOMAIN exchangeRates \subseteq Currencies

\* ------------------------------------------------- claims on conversion
Amounts == {R(100), R(-60), Num(1, 3)}
HasRate(c) == c \in DOMAIN exchangeRates /\ exchangeRates[c] \notin {Zero, NaN}
HoldsIn(c) ==
  \E i \in 1..Len(financialData.assets) : financialData.assets[i].currency = c

\* C21: converting from a currency to the same currency returns the amount
\* unchanged, for every amount, currency and rate table, also when the
\* currency is missing from the table or has rate 0.
C21_SameCurrencyUnchanged ==
  /\ \A a \in Amounts : \A c \in Currencies : toDominant(a, c, exchangeRates, c) = a
  /\ \A m \in Metrics : \E items \in {Drilldown(m)} :
       \A i \in 1..Len(items) :
         items[i].currency = mainCurrency => items[i].converted = items[i].amount

\* the netWorth drill-down shows an asset held in the display currency, whose
\* rate is 50 while another currency's rate is missing or 0
C21_Witness ==
  /\ activeMetric = {"netWorth"}
  /\ HoldsIn(mainCurrency)
  /\ HasRate(mainCurrency) /\ exchangeRates[mainCurrency] = R(50)
  /\ \E c \in Currencies : ~HasRate(c)

\* C22: conversion never divides by zero: a currency that is missing from the
\* rate table or has rate 0 counts as rate 1, so every headline metric and
\* every converted drill-down amount is a finite number.
C22_ConversionDefined ==
  /\ \E h \in {Headline} : \A k \in DOMAIN h \ {"dominantCurrency"} : IsFinite(h[k])
  /\ \A m \in Metrics : \E items \in {Drilldown(m)} :
       \A i \in 1..Len(items) : IsFinite(items[i].converted)
  /\ \A a \in Amounts : \A c, d \in Currencies :
       /\ ~HasRate(c) /\ ~HasRate(d) => toDominant(a, c, exchangeRates, d) = a
       /\ ~HasRate(c) /\ HasRate(d) /\ c # d =>
            toDominant(a, c, exchangeRates, d) = Times(a, exchangeRates[d])
       /\ HasRate(c) /\ ~HasRate(d) /\ c # d =>
            toDominant(a, c, exchangeRates, d) = Over(a, exchangeRates[c])

\* a drill-down shows an asset held in a currency whose rate is 0, converted
\* to a display currency that is missing from the table
C22_Witness ==
  /\ activeMetric # {}
  /\ mainCurrency \notin DOMAIN exchangeRates
  /\ \E c \in DOMAIN exchangeRates : exchangeRates[c] = Zero /\ HoldsIn(c)

\* C23: for two currencies that are in the rate table with non-zero rates,
\* converting an amount from the one to the other and back gives the amount.
C23_RoundTrip ==
  \A a \in Amounts : \A c, d \in DOMAIN exchangeRates :
    exchangeRates[c] # Zero /\ exchangeRates[d] # Zero =>
      toDominant(toDominant(a, c, exchangeRates, d), d, exchangeRates, c) = a

\* an asset held in a currency with rate 50 is shown in a display currency
\* with another rate that is neither 0 nor 1
C23_Witness ==
  /\ activeMetric # {}
  /\ HasRate(mainCurrency) /\ exchangeRates[mainCurrency] \notin {R(1), R(50)}
  /\ \E c \in Currencies \ {mainCurrency} :
       HasRate(c) /\ exchangeRates[c] = R(50) /\ HoldsIn(c)

\* ------------------------------------------------- claims on the calendar
\* the day `dom` of now's month, at now's time of day, lies more than a day
\* before now
PassedMoreThanADayAgo(dom) == dom < GetDate(clock) - 1

\* C24: the target of a Monthly expense with a dayOfMonth is that day in the
\* current month, or that day one month later when that date is more than one
\* day before now.
C24_MonthlyTarget ==
  \A i \in 1..Len(financialData.expenses) :
    LET e == financialData.expenses[i]
    IN  (e.frequency = "Monthly" /\ Truthy(e.dayOfMonth)) =>
          /\ GetDate(MonthlyTarget(e)) = TheValue(e.dayOfMonth)
          /\ MonthIndex(MonthlyTarget(e)) =
               (IF PassedMoreThanADayAgo(TheValue(e.dayOfMonth))
                THEN MonthIndex(clock) + 1 ELSE MonthIndex(clock))

\* ------------------------------------------------ claims on debt reminders
IsOpenInstallment(d) == d.isInstallment /\ Positive(d.remainingAmount)
DebtNotified(d) ==
  \E i \in 1..Len(Notifications) :
    Notifications[i].id[1] = "notif_debt" /\ Notifications[i].id[2] = d.id
DebtFired(d) ==
  \E k \in FiredIds : k[1] = "notif_debt" /\ k[2] = d.id

\* a Monthly expense due on the day of the month of the debt's date
AsMonthlyExpense(d) ==
  [id |-> d.id, title |-> d.title, amount |-> d.totalAmount, currency |-> d.currency,
   category |-> "", frequency |-> "Monthly", date |-> d.date,
   dayOfMonth |-> {GetDate(d.date)}, isPaid |-> {TRUE}]

\* C25: only a debt with isInstallment true and remainingAmount > 0 is
\* reminded, under the rule of a Monthly expense due on the day of the month
\* of the debt's date (same target, same window); any other debt never gets a
\* notification.
C25_DebtReminders ==
  \A i \in 1..Len(financialData.debts) :
    LET d == financialData.debts[i]
        asked == DebtReminders(d, clock)
        like == ExpenseReminders(AsMonthlyExpense(d), clock)
    IN  /\ ~IsOpenInstallment(d) => ~DebtFired(d) /\ ~DebtNotified(d)
        /\ IsOpenInstallment(d) =>
             /\ Len(asked) = Len(like)
             /\ asked # <<>> =>
                  /\ asked[1].target = like[1].target
                  /\ asked[1].notif.id = <<"notif_debt", d.id, like[1].notif.id[3]>>
             /\ DebtFired(d) <=> (asked # <<>> /\ asked[1].notif.id \notin NotificationIds)

\* the scan has reminded of an open installment debt next to a debt that is
\* repaid or no installment debt and whose day of the month is in the window
C25_Witness ==
  \E i, j \in 1..Len(financialData.debts) :
    /\ IsOpenInstallment(financialData.debts[i])
    /\ DebtNotified(financialData.debts[i])
    /\ ~IsOpenInstallment(financialData.debts[j])
    /\ InWindow(DebtTarget(financialData.debts[j]), clock)

\* ----------------------------------------------------- claims on the timer
\* the asset `id` is in the ledger, pending with autoCredit, and its date has
\* been reached
PendingDue(id) ==
  \E i \in 1..Len(financialData.assets) :
    /\ financialData.assets[i].id = id
    /\ financialData.assets[i].isReceived = {FALSE}
    /\ financialData.assets[i].autoCredit = {TRUE}
    /\ financialData.assets[i].date <= clock

\* C26: once the clock has reached the date of a pending autoCredit asset,
\* the asset is eventually received (or has left the ledger), also when no
\* ledger mutation follows.
C26_AutoCreditEventually ==
  \A id \in 1..MaxId : PendingDue(id) ~> ~PendingDue(id)

\* ------------------------------------------------- claims on the mutations
Kinds == {"debts", "expenses", "assets", "goals"}
Before(kind) == financialData[kind]
After(kind) == financialData'[kind]
OthersKept(kind) ==
  \A k \in (Kinds \ {kind}) \cup {"notifications"} : After(k) = Before(k)

\* the new record is first, the old ones follow in their order
Added(kind) ==
  /\ Len(After(kind)) = Len(Before(kind)) + 1
  /\ Tail(After(kind)) = Before(kind)
  /\ Head(After(kind)).id = nextId
  /\ OthersKept(kind)

\* the records of one id are replaced where they were by records of that id;
\* nothing changes when no record has the id
Updated(kind) ==
  /\ Len(After(kind)) = Len(Before(kind))
  /\ \E id \in UsedIds :
       \A i \in 1..Len(Before(kind)) :
         IF Before(kind)[i].id = id
         THEN After(kind)[i].id = id
         ELSE After(kind)[i] = Before(kind)[i]
  /\ \A i \in 1..Len(Before(kind)) : After(kind)[i].id = Before(kind)[i].id
  /\ OthersKept(kind)

\* one record is taken out, or none when no record has the id
Deleted(kind) ==
  /\ \/ After(kind) = Before(kind)
     \/ \E k \in 1..Len(Before(kind)) :
          /\ After(kind) = WithoutIndex(Before(kind), k)
          /\ \A i \in 1..Len(After(kind)) : After(kind)[i].id # Before(kind)[k].id
  /\ OthersKept(kind)

\* C27: an add puts the new record first in its own collection, an update
\* replaces the record of the same id in place (nothing when there is none),
\* a delete removes the record of that id (nothing when there is none); the
\* other collections and the notification list are unchanged.
MutationStep ==
  /\ AddDebt => Added("debts")
  /\ AddExpense => Added("expenses")
  /\ AddAsset => Added("assets")
  /\ AddGoal => Added("goals")
  /\ UpdateDebt => Updated("debts")
  /\ UpdateExpense => Updated("expenses")
  /\ UpdateAsset => Updated("assets")
  /\ DeleteDebt => Deleted("debts")
  /\ DeleteExpense => Deleted("expenses")
  /\ DeleteAsset => Deleted("assets")
  /\ DeleteGoal => Deleted("goals")
C27_Mutations == [][MutationStep]_vars

\* a Monthly expense was reminded of and then saved as a One-time expense,
\* in a ledger of two records: the update kept the reminder and the rest
C27_Witness ==
  /\ Len(financialData.expenses) + Len(financialData.debts) + Len(financialData.assets) = 2
  /\ \E i \in 1..Len(financialData.expenses) :
       /\ financialData.expenses[i].frequency = "One-time"
       /\ \E m \in 0..11 :
            <<"notif_exp", financialData.expenses[i].id, m>> \in NotificationIds

\* ------------------------------------------------------ claims on one scan
\* C28: one scan step is one ledger update that flips isReceived of assets
\* from not-received to received only, appends the new notifications after
\* the listed ones, which it keeps in order, and leaves debts, expenses and
\* goals as they are and every asset in its place.
ScanStep ==
  Scan =>
    /\ After("debts") = Before("debts")
    /\ After("expenses") = Before("expenses")
    /\ After("goals") = Before("goals")
    /\ Len(After("assets")) = Len(Before("assets"))
    /\ \A i \in 1..Len(Before("assets")) :
         \/ After("assets")[i] = Before("assets")[i]
         \/ /\ Before("assets")[i].isReceived # {TRUE}
            /\ After("assets")[i] = [Before("assets")[i] EXCEPT !.isReceived = {TRUE}]
    /\ Len(After("notifications")) >= Len(Notifications)
    /\ SubSeq(After("notifications"), 1, Len(Notifications)) = Notifications
    /\ \A i \in (Len(Notifications) + 1)..Len(After("notifications")) :
         /\ After("notifications")[i].id \notin NotificationIds
         /\ After("notifications")[i].date = clock
QuiesceStep ==
  Scan =>
    IF financialData' = financialData
    THEN timer' = {}
    ELSE /\ timer' = {financialData'}
         /\ ~CheckUpdates(financialData', clock, permission).hasChanges
C29_ScanQuiesces == [][QuiesceStep]_vars

\* the follow-up scan is pending after a scan that has just credited an asset
\* and fired a reminder
C29_Witness ==
  /\ timer = {financialData}
  /\ pushed # <<>>
  /\ Notifications # <<>> /\ Notifications[Len(Notifications)].date = clock
  /\ \E i \in 1..Len(financialData.assets) :
       /\ financialData.assets[i].autoCredit = {TRUE}
       /\ financialData.assets[i].isReceived = {TRUE}
       /\ financialData.assets[i].date = clock

\* ------------------------------------------------- claims on reminder ids
\* the reminders the ledger asks for now, before the existing-id check
AskedNow ==
  Flatten([i \in 1..Len(financialData.expenses) |->
             ExpenseReminders(financialData.expenses[i], clock)])
  \o Flatten([i \in 1..Len(financialData.debts) |->
             DebtReminders(financialData.debts[i], clock)])

\* C30: a notification id stands for one due period of one record: no id is
\* issued for two different due dates, and a reminder is held back by a
\* listed notification only if that one was issued for the same due date.
C30_IdsSeparatePeriods ==
  /\ \A p, q \in issued : p[1] = q[1] => p[2] = q[2]
  /\ \A i \in 1..Len(AskedNow) :
       AskedNow[i].notif.id \in NotificationIds =>
         <<AskedNow[i].notif.id, AskedNow[i].target>> \in issued

====
